---- MODULE Spec2Model ----
(***************************************************************************)
(* Pairwise-comparison rating server (pairwise_ranking.py): the task set,  *)
(* the per-rater sessions, the aggregate scores and the progress snapshot, *)
(* with the four HTTP handlers as the operations.                          *)
(*                                                                         *)
(* Python values are modelled as follows.  A dict is a function whose      *)
(* DOMAIN is the set of its keys.  A list is a sequence; Python's index i  *)
(* is the sequence's index i + 1.  A rater session is a record tagged with *)
(* its Python type: a dict {"order", "current_index"} or a bare integer    *)
(* (the legacy snapshot format that get_task resets).  An exception that   *)
(* leaves a handler is the handler's result ("KeyError", ...); whatever    *)
(* the handler assigned before raising stays assigned.                     *)
(***************************************************************************)
EXTENDS Integers, Sequences, FiniteSets, TLC

\* ------------------------------------------------------------------------
\* Bounds of the model
\* ------------------------------------------------------------------------

\* How many POST /submit requests are served in one behaviour.
MaxSubmits == 2

\* The most candidates and the most datapoints of the experiment
\* definitions the task set is built from.
MaxWeights == 3

MaxInputs == 2

\* ------------------------------------------------------------------------
\* The experiment definition (DATA_JSON_FILE)
\* ------------------------------------------------------------------------

\* experiment_data["weights"]: the candidates, in the file's order.
weights == <<"w1", "w2">>

\* experiment_data["inputs"]: the datapoints (their ids), in the file's order.
inputs_data == <<"dp1", "dp2">>

\* experiment_data["outputs"][w][i]: candidate w's artifact for datapoint i.
outputs(w, i) == <<"out", w, i>>

\* The candidates as a set.
WeightSet == {weights[k] : k \in 1..Len(weights)}

\* A candidate identifier that the definition does not list.
UnknownWeight == "zz"

\* The rater identifiers that requests carry.
Raters == {"r1", "r2"}

\* The requests that can be in flight at the same time.
Procs == {"p1", "p2"}

\* ------------------------------------------------------------------------
\* The task set
\* ------------------------------------------------------------------------

\* itertools.combinations(weights, 2): the index pairs i < j in
\* lexicographic order.
RECURSIVE CombinationsFrom(_, _, _)
CombinationsFrom(n, i, j) ==
    IF i >= n THEN <<>>
    ELSE IF j > n THEN CombinationsFrom(n, i + 1, i + 2)
    ELSE <<(<<i, j>>)>> \o CombinationsFrom(n, i, j + 1)

\* Every ordered pair of two different positions, as
\* itertools.permutations would give them.
RECURSIVE PermutationsFrom(_, _, _)
PermutationsFrom(n, i, j) ==
    IF i > n THEN <<>>
    ELSE IF j > n THEN PermutationsFrom(n, i + 1, 1)
    ELSE IF i = j THEN PermutationsFrom(n, i, j + 1)
    ELSE <<(<<i, j>>)>> \o PermutationsFrom(n, i, j + 1)

Combinations_Ordered(ws) == PermutationsFrom(Len(ws), 1, 1)

\* itertools.combinations(ws, 2) for a candidate list ws.
Combinations(ws) == CombinationsFrom(Len(ws), 1, 2)

combinations == Combinations(weights)

\* The dict appended for datapoint i (1-based position in ins) and the pair
\* c of candidate positions in ws.
BuildTask(ws, ins, i, c) ==
    [datapoint_id |-> ins[i],
     left_weight  |-> ws[c[1]],
     right_weight |-> ws[c[2]],
     left_output  |-> outputs(ws[c[1]], i),
     right_output |-> outputs(ws[c[2]], i)]

\* The module-level loop that fills `tasks`, for a candidate list ws and a
\* datapoint list ins: datapoints outermost, pairs innermost.
BuildTasks(ws, ins) ==
    [k \in 1..(Len(ins) * Len(Combinations(ws))) |->
        BuildTask(ws, ins,
                  ((k - 1) \div Len(Combinations(ws))) + 1,
                  Combinations(ws)[((k - 1) % Len(Combinations(ws))) + 1])]

\* One task of the experiment: datapoint i (1-based) and the pair c of
\* candidate positions.
Task(i, c) == BuildTask(weights, inputs_data, i, c)

\* `tasks` of the experiment.
tasks == BuildTasks(weights, inputs_data)

\* len(tasks)
NumTasks == Len(tasks)

\* ------------------------------------------------------------------------
\* Sessions
\* ------------------------------------------------------------------------

\* A shuffle that may repeat an index.
ShuffledOrders_WithRepeats == [1..NumTasks -> 0..(NumTasks - 1)]

\* list(range(len(tasks))) after random.shuffle: any arrangement of the
\* task indices 0 .. len(tasks)-1.
ShuffledOrders ==
    {s \in [1..NumTasks -> 0..(NumTasks - 1)] :
        \A a, b \in 1..NumTasks : a # b => s[a] # s[b]}

\* A rater session held as a dict.
DictSession(order, idx) ==
    [type |-> "dict", order |-> order, current_index |-> idx]

\* The creation branch taken on every request.
NeedsNewSession_Always(sessions, rater_id) == TRUE

\* The guard of get_task's creation branch.
NeedsNewSession(sessions, rater_id) ==
    \/ rater_id \notin DOMAIN sessions
    \/ sessions[rater_id].type # "dict"

\* {} : the empty Python dict.
EmptyDict == [k \in {} |-> 0]

\* d[k] = v on a Python dict: the key is added when absent.
DictSet(d, k, v) == [x \in (DOMAIN d) \cup {k} |-> IF x = k THEN v ELSE d[x]]

\* d.get(k, default)
DictGet(d, k, default) == IF k \in DOMAIN d THEN d[k] ELSE default

\* ------------------------------------------------------------------------
\* Persistence: PROGRESS_STORE_FILE
\* ------------------------------------------------------------------------

\* json.dump of one session: a dict becomes a JSON object, an int a number.
JsonOfSession(s) ==
    IF s.type = "dict"
    THEN [json |-> "object", order |-> s.order,
          current_index |-> s.current_index]
    ELSE [json |-> "number", value |-> s.value]

\* json.load of one stored session.
SessionOfJson(j) ==
    IF j.json = "object"
    THEN [type |-> "dict", order |-> j.order,
          current_index |-> j.current_index]
    ELSE [type |-> "int", value |-> j.value]

\* The state of the snapshot file when os.path.exists is false.
NoFile == [exists |-> FALSE]

\* default_aggregate_scores
default_aggregate_scores == [w \in WeightSet |-> 0]

\* default_rater_sessions
default_rater_sessions == EmptyDict

\* A backfill loop without its `if`: every weight is set to zero.
Backfill_Resetting(stored_scores) ==
    [w \in (DOMAIN stored_scores) \cup WeightSet |->
        IF w \in WeightSet THEN 0 ELSE stored_scores[w]]

\* The backfill loop of load_progress: every weight gets an entry.
Backfill(stored_scores) ==
    [w \in (DOMAIN stored_scores) \cup WeightSet |->
        IF w \in DOMAIN stored_scores THEN stored_scores[w] ELSE 0]

\* load_progress(): the sessions and scores the process starts with.
load_progress(file) ==
    IF ~file.exists
    THEN [rater_sessions   |-> default_rater_sessions,
          aggregate_scores |-> default_aggregate_scores]
    ELSE LET stored_scores == DictGet(file.data, "aggregate_scores", EmptyDict)
             stored_sessions == DictGet(file.data, "rater_sessions", EmptyDict)
         IN  [rater_sessions   |->
                  [r \in DOMAIN stored_sessions |->
                      SessionOfJson(stored_sessions[r])],
              aggregate_scores |-> Backfill(stored_scores)]

\* save_progress(rater_sessions, aggregate_scores): the file it leaves.
save_progress(sessions, scores) ==
    [exists |-> TRUE,
     data   |-> [rater_sessions   |->
                     [r \in DOMAIN sessions |-> JsonOfSession(sessions[r])],
                 aggregate_scores |-> scores]]

\* ------------------------------------------------------------------------
\* Pure parts of the handlers
\* ------------------------------------------------------------------------

\* Python's list[i]: negative indices count from the end; out of range
\* raises IndexError.
InRange(list, i) == (-Len(list)) <= i /\ i < Len(list)

PyIndex(list, i) == IF i >= 0 THEN list[i + 1] ELSE list[Len(list) + i + 1]

\* The completion test with > in place of >=.
IsComplete_Strict(current_index) == current_index > NumTasks

\* The completion test with == in place of >=.
IsComplete_OnlyAtEnd(current_index) == current_index = NumTasks

\* The completion test of get_task: current_index >= len(tasks).
IsComplete(current_index) == current_index >= NumTasks

\* get_task after the lock: the completion test, then
\* tasks[session["order"][current_index]].
TaskResponse(order, current_index) ==
    IF IsComplete(current_index)
    THEN [view |-> "completed"]
    ELSE IF ~InRange(order, current_index)
    THEN [view |-> "IndexError"]
    ELSE IF ~InRange(tasks, PyIndex(order, current_index))
    THEN [view |-> "IndexError"]
    ELSE [view |-> "task",
          task |-> PyIndex(tasks, PyIndex(order, current_index))]

\* The (left_selected, right_selected) pairs the forms carry: the four the
\* page can send, and some it cannot.
FormSelections ==
    {<<"1", "0">>, <<"0", "1">>, <<"1", "1">>, <<"0", "0">>,
     <<"2", "0">>, <<"x", "1">>}

\* The (left_weight, right_weight) pairs the forms carry: the tasks' pair,
\* one candidate twice, and pairs naming a candidate the definition does
\* not list.
FormPairs ==
    {<<"w1", "w2">>, <<"w1", "w1">>,
     <<"w1", UnknownWeight>>, <<UnknownWeight, "w2">>}

\* Whether int(s) succeeds, for the form values above.
IsIntLiteral(s) == s \in {"0", "1", "2"}

\* int(s) for the literals above.
IntOf(s) == CASE s = "0" -> 0 [] s = "1" -> 1 [] s = "2" -> 2

\* The if/elif chain of submit_rating: which branch runs (0: none).
Branch(l_sel, r_sel) ==
    CASE l_sel = 1 /\ r_sel = 0 -> 1
      [] l_sel = 0 /\ r_sel = 1 -> 2
      [] l_sel = 1 /\ r_sel = 1 -> 3
      [] l_sel = 0 /\ r_sel = 0 -> 4
      [] OTHER -> 0

\* Every branch crediting the left candidate.
LeftDelta_AlwaysPlus(branch) == 1

\* What a branch adds to the left and to the right candidate.
LeftDelta(branch) == IF branch \in {1, 3} THEN 1 ELSE -1

RightDelta(branch) == IF branch \in {2, 3} THEN 1 ELSE -1

\* The two statements of a branch, in order: aggregate_scores[left] += d,
\* then aggregate_scores[right] += d. A missing key raises KeyError at that
\* statement and keeps what the earlier statement assigned.
ApplyVote(scores, left_weight, right_weight, l_sel, r_sel) ==
    LET b == Branch(l_sel, r_sel)
    IN  IF b = 0
        THEN [scores |-> scores, raised |-> "none"]
        ELSE IF left_weight \notin DOMAIN scores
        THEN [scores |-> scores, raised |-> "KeyError:left_weight"]
        ELSE LET s1 == [scores EXCEPT ![left_weight] = @ + LeftDelta(b)]
             IN  IF right_weight \notin DOMAIN s1
                 THEN [scores |-> s1, raised |-> "KeyError:right_weight"]
                 ELSE [scores |-> [s1 EXCEPT ![right_weight] =
                                        @ + RightDelta(b)],
                       raised |-> "none"]

\* rater_sessions[rater_id]["current_index"] += 1
Advance(sessions, rater_id) ==
    IF rater_id \notin DOMAIN sessions
    THEN [sessions |-> sessions, raised |-> "KeyError:rater_id"]
    ELSE IF sessions[rater_id].type # "dict"
    THEN [sessions |-> sessions, raised |-> "TypeError:rater_id"]
    ELSE [sessions |-> [sessions EXCEPT ![rater_id].current_index = @ + 1],
          raised |-> "none"]

\* The response of submit_rating once the critical section is left.
SubmitResponse(next_index) ==
    IF next_index >= NumTasks THEN "completed" ELSE "redirect"

\* submit_rating as a whole: the sessions, scores and file it leaves and
\* what the caller gets (a view, or the exception that left the handler).
SubmitEffect(sessions, scores, file, rater_id, left_weight, right_weight, left_selected, right_selected) ==
    IF ~IsIntLiteral(left_selected) \/ ~IsIntLiteral(right_selected)
    THEN [sessions |-> sessions, scores |-> scores, file |-> file,
          result |-> "ValueError", branch |-> 0]
    ELSE LET vote == ApplyVote(scores, left_weight, right_weight,
                               IntOf(left_selected), IntOf(right_selected))
             adv  == Advance(sessions, rater_id)
             b    == Branch(IntOf(left_selected), IntOf(right_selected))
         IN  IF vote.raised # "none"
             THEN [sessions |-> sessions, scores |-> vote.scores,
                   file |-> file, result |-> vote.raised, branch |-> b]
             ELSE IF adv.raised # "none"
             THEN [sessions |-> sessions, scores |-> vote.scores,
                   file |-> file, result |-> adv.raised, branch |-> b]
             ELSE [sessions |-> adv.sessions, scores |-> vote.scores,
                   file |-> save_progress(adv.sessions, vote.scores),
                   result |-> SubmitResponse(
                                 adv.sessions[rater_id].current_index),
                   branch |-> b]

\* get_status: rater_sessions.get(rater_id, {"current_index": 0}), then
\* session.get("current_index", 0); an int session has no .get.
StatusResponse(sessions, rater_id) ==
    IF rater_id \notin DOMAIN sessions
    THEN [result |-> "ok", progress |-> 0, total_tasks |-> NumTasks]
    ELSE IF sessions[rater_id].type # "dict"
    THEN [result |-> "AttributeError"]
    ELSE [result |-> "ok",
          progress |-> sessions[rater_id].current_index,
          total_tasks |-> NumTasks]

\* ------------------------------------------------------------------------
\* The lock: data_store_lock = threading.RLock()
\* ------------------------------------------------------------------------

\* The lock when nobody holds it.
Unlocked == [owner |-> "none", depth |-> 0]

\* A lock that excludes nobody.
CanAcquire_NoExclusion(l, who) == TRUE

\* A lock that is not re-entrant (threading.Lock): its holder waits too.
CanAcquire_NotReentrant(l, who) == l.owner = "none"

\* Whether `who` gets the lock now: it is free, or `who` holds it already
\* (the lock is re-entrant).
CanAcquire(l, who) == l.owner = "none" \/ l.owner = who

\* The lock after `who` has acquired it.
Acquire(l, who) == [owner |-> who, depth |-> l.depth + 1]

\* The lock after its holder has released it once.
Release(l) ==
    IF l.depth <= 1 THEN Unlocked
    ELSE [owner |-> l.owner, depth |-> l.depth - 1]

\* ------------------------------------------------------------------------
\* State
\* ------------------------------------------------------------------------

VARIABLES
    experiment_data,   \* the experiment definition read from DATA_JSON_FILE
    built_tasks,       \* the module-level list `tasks`, once it is built
    rater_sessions,    \* the module-level dict rater_id -> session
    aggregate_scores,  \* the module-level dict weight -> score
    progress_store,    \* PROGRESS_STORE_FILE on disk
    data_store_lock,   \* the re-entrant lock
    pc,                \* per request slot: where its get_task stands
    locals,            \* per request slot: get_task's local variables
    last,              \* the request most recently answered, and the answer
    nSubmits,          \* POST /submit requests served so far
    created            \* per rater: how many sessions have been created

vars == <<experiment_data, built_tasks, rater_sessions, aggregate_scores,
          progress_store, data_store_lock, pc, locals, last, nSubmits,
          created>>

\* A snapshot left by an earlier run whose candidates were w1 and zz:
\* r1 one task into its order, r2 in the legacy integer format.
OldSnapshot ==
    [exists |-> TRUE,
     data   |-> [rater_sessions   |->
                     [r \in {"r1", "r2"} |->
                         IF r = "r1"
                         THEN [json |-> "object", order |-> <<1, 0>>,
                               current_index |-> 1]
                         ELSE [json |-> "number", value |-> 1]],
                 aggregate_scores |->
                     [w \in {"w1", UnknownWeight} |->
                         IF w = "w1" THEN -1 ELSE 1]]]

\* What PROGRESS_STORE_FILE can be when the process starts.
InitialStores == {NoFile, OldSnapshot}

\* The local variables of a request slot that runs nothing.
NoLocals == [rater_id |-> "none"]

\* Module import: progress_data = load_progress().
Init ==
    /\ experiment_data = [weights |-> weights, inputs |-> inputs_data]
    /\ built_tasks = [built |-> TRUE, tasks |-> tasks]
    /\ progress_store \in InitialStores
    /\ rater_sessions = load_progress(progress_store).rater_sessions
    /\ aggregate_scores = load_progress(progress_store).aggregate_scores
    /\ data_store_lock = Unlocked
    /\ pc = [p \in Procs |-> "idle"]
    /\ locals = [p \in Procs |-> NoLocals]
    /\ last = [op |-> "start"]
    /\ nSubmits = 0
    /\ created = [r \in Raters |-> 0]

\* ------------------------------------------------------------------------
\* Operations, each handler as one step
\* ------------------------------------------------------------------------

\* The response of get_task for a session, as `last` records it.
TaskAnswer(rater_id, session) ==
    [op |-> "task", rater_id |-> rater_id, order |-> session.order,
     current_index |-> session.current_index,
     response |-> TaskResponse(session.order, session.current_index)]

\* GET /task
get_task(rater_id) ==
    /\ CanAcquire(data_store_lock, "request")
    /\ IF NeedsNewSession(rater_sessions, rater_id)
       THEN \E order \in ShuffledOrders :
               /\ rater_sessions' =
                      DictSet(rater_sessions, rater_id, DictSession(order, 0))
               /\ progress_store' =
                      save_progress(rater_sessions', aggregate_scores)
               /\ created' = [created EXCEPT ![rater_id] = @ + 1]
       ELSE UNCHANGED <<rater_sessions, progress_store, created>>
    /\ last' = TaskAnswer(rater_id, rater_sessions'[rater_id])
    /\ UNCHANGED <<experiment_data, built_tasks>>
    /\ UNCHANGED <<aggregate_scores, data_store_lock, pc, locals, nSubmits>>

\* POST /submit
submit_rating(rater_id, left_weight, right_weight, left_selected, right_selected) ==
    LET e == SubmitEffect(rater_sessions, aggregate_scores, progress_store,
                          rater_id, left_weight, right_weight,
                          left_selected, right_selected)
    IN  /\ CanAcquire(data_store_lock, "request")
        /\ nSubmits < MaxSubmits
        /\ nSubmits' = nSubmits + 1
        /\ rater_sessions' = e.sessions
        /\ aggregate_scores' = e.scores
        /\ progress_store' = e.file
        /\ last' = [op |-> "submit", rater_id |-> rater_id,
                    left_weight |-> left_weight,
                    right_weight |-> right_weight,
                    left_selected |-> left_selected,
                    right_selected |-> right_selected,
                    result |-> e.result, branch |-> e.branch]
        /\ UNCHANGED <<experiment_data, built_tasks>>
        /\ UNCHANGED <<data_store_lock, pc, locals, created>>

\* GET /results
get_results ==
    /\ last' = [op |-> "results", content |-> aggregate_scores]
    /\ UNCHANGED <<experiment_data, built_tasks>>
    /\ UNCHANGED <<rater_sessions, aggregate_scores, progress_store,
                   data_store_lock, pc, locals, nSubmits, created>>

\* A status request that files the default session it reports
\* (setdefault in place of get).
get_status_Creating(rater_id) ==
    /\ CanAcquire(data_store_lock, "request")
    /\ rater_sessions' =
          IF rater_id \in DOMAIN rater_sessions THEN rater_sessions
          ELSE DictSet(rater_sessions, rater_id, DictSession(<<>>, 0))
    /\ last' = [op |-> "status", rater_id |-> rater_id,
                response |-> StatusResponse(rater_sessions, rater_id)]
    /\ UNCHANGED <<experiment_data, built_tasks, aggregate_scores,
                   progress_store, data_store_lock, pc, locals, nSubmits,
                   created>>

\* GET /status
get_status(rater_id) ==
    /\ CanAcquire(data_store_lock, "request")
    /\ last' = [op |-> "status", rater_id |-> rater_id,
                response |-> StatusResponse(rater_sessions, rater_id)]
    /\ UNCHANGED <<experiment_data, built_tasks>>
    /\ UNCHANGED <<rater_sessions, aggregate_scores, progress_store,
                   data_store_lock, pc, locals, nSubmits, created>>

\* The process is stopped and started again: the module is imported anew.
Restart ==
    /\ rater_sessions' = load_progress(progress_store).rater_sessions
    /\ aggregate_scores' = load_progress(progress_store).aggregate_scores
    /\ last' = [op |-> "restart"]
    /\ UNCHANGED <<experiment_data, built_tasks>>
    /\ UNCHANGED <<progress_store, data_store_lock, pc, locals, nSubmits,
                   created>>

Next ==
    \/ \E r \in Raters : get_task(r)
    \/ \E r \in Raters, w \in FormPairs, sel \in FormSelections :
          submit_rating(r, w[1], w[2], sel[1], sel[2])
    \/ get_results
    \/ \E r \in Raters : get_status(r)
    \/ Restart

\* Requests served one after the other, with restarts in between.
Spec == Init /\ [][Next]_vars

\* ------------------------------------------------------------------------
\* GET /task statement by statement, for requests that run side by side
\* ------------------------------------------------------------------------

\* `with data_store_lock:` is entered.
task_enter(p, rater_id) ==
    /\ pc[p] = "idle"
    /\ CanAcquire(data_store_lock, p)
    /\ data_store_lock' = Acquire(data_store_lock, p)
    /\ pc' = [pc EXCEPT ![p] = "check"]
    /\ locals' = [locals EXCEPT ![p] = [rater_id |-> rater_id]]
    /\ UNCHANGED <<experiment_data, built_tasks>>
    /\ UNCHANGED <<rater_sessions, aggregate_scores, progress_store, last,
                   nSubmits, created>>

\* The `if` that guards session creation.
task_check(p) ==
    /\ pc[p] = "check"
    /\ pc' = [pc EXCEPT ![p] =
                 IF NeedsNewSession(rater_sessions, locals[p].rater_id)
                 THEN "create" ELSE "read"]
    /\ UNCHANGED <<experiment_data, built_tasks>>
    /\ UNCHANGED <<rater_sessions, aggregate_scores, progress_store,
                   data_store_lock, locals, last, nSubmits, created>>

\* order = list(range(len(tasks))); random.shuffle(order);
\* rater_sessions[rater_id] = {"order": order, "current_index": 0}
task_create(p) ==
    /\ pc[p] = "create"
    /\ \E order \in ShuffledOrders :
          rater_sessions' = DictSet(rater_sessions, locals[p].rater_id,
                                    DictSession(order, 0))
    /\ created' = [created EXCEPT ![locals[p].rater_id] = @ + 1]
    /\ pc' = [pc EXCEPT ![p] = "save"]
    /\ UNCHANGED <<experiment_data, built_tasks>>
    /\ UNCHANGED <<aggregate_scores, progress_store, data_store_lock,
                   locals, last, nSubmits>>

\* save_progress(rater_sessions, aggregate_scores): the lock is taken
\* again by the slot that holds it, the file written, the lock given back
\* once.
task_save(p) ==
    /\ pc[p] = "save"
    /\ CanAcquire(data_store_lock, p)
    /\ progress_store' = save_progress(rater_sessions, aggregate_scores)
    /\ data_store_lock' = Release(Acquire(data_store_lock, p))
    /\ pc' = [pc EXCEPT ![p] = "read"]
    /\ UNCHANGED <<experiment_data, built_tasks>>
    /\ UNCHANGED <<rater_sessions, aggregate_scores, locals, last, nSubmits,
                   created>>

\* session = rater_sessions[rater_id]; current_index = session[...]; the
\* `with` block is left. `session` refers to the dict, whose "order" list
\* nothing assigns again: the local keeps that list.
task_read(p) ==
    /\ pc[p] = "read"
    /\ locals' = [locals EXCEPT ![p] =
                     [rater_id |-> locals[p].rater_id,
                      order |-> rater_sessions[locals[p].rater_id].order,
                      current_index |->
                          rater_sessions[locals[p].rater_id].current_index]]
    /\ data_store_lock' = Release(data_store_lock)
    /\ pc' = [pc EXCEPT ![p] = "respond"]
    /\ UNCHANGED <<experiment_data, built_tasks>>
    /\ UNCHANGED <<rater_sessions, aggregate_scores, progress_store, last,
                   nSubmits, created>>

\* After the lock: the completion view or the task page.
task_respond(p) ==
    /\ pc[p] = "respond"
    /\ last' = [op |-> "task", rater_id |-> locals[p].rater_id,
                order |-> locals[p].order,
                current_index |-> locals[p].current_index,
                response |-> TaskResponse(locals[p].order,
                                          locals[p].current_index)]
    /\ pc' = [pc EXCEPT ![p] = "idle"]
    /\ locals' = [locals EXCEPT ![p] = NoLocals]
    /\ UNCHANGED <<experiment_data, built_tasks>>
    /\ UNCHANGED <<rater_sessions, aggregate_scores, progress_store,
                   data_store_lock, nSubmits, created>>

\* The votes submitted while get_task requests run side by side.
ConcVotes == {<<"w1", "w2", "1", "0">>}

ConcNext ==
    \/ \E p \in Procs, r \in Raters : task_enter(p, r)
    \/ \E p \in Procs : task_check(p)
    \/ \E p \in Procs : task_create(p)
    \/ \E p \in Procs : task_save(p)
    \/ \E p \in Procs : task_read(p)
    \/ \E p \in Procs : task_respond(p)
    \/ \E r \in Raters, v \in ConcVotes :
          submit_rating(r, v[1], v[2], v[3], v[4])

\* GET /task requests side by side, with submissions in between.
SpecConc == Init /\ [][ConcNext]_vars

\* ------------------------------------------------------------------------
\* The three handlers that take the lock, statement by statement, each
\* request first waiting for the lock
\* ------------------------------------------------------------------------

\* The positions of a request at which it holds the lock.
CriticalPcs ==
    {"check", "create", "save", "read",
     "submit_vote", "submit_read", "submit_write", "submit_save",
     "submit_exit", "status_read"}

\* A GET /task request arrives and reaches `with data_store_lock:`.
arrive_task(p, rater_id) ==
    /\ pc[p] = "idle"
    /\ pc' = [pc EXCEPT ![p] = "task_wait"]
    /\ locals' = [locals EXCEPT ![p] = [rater_id |-> rater_id]]
    /\ UNCHANGED <<experiment_data, built_tasks, rater_sessions,
                   aggregate_scores, progress_store, data_store_lock, last,
                   nSubmits, created>>

\* get_task gets the lock.
task_acquire(p) ==
    /\ pc[p] = "task_wait"
    /\ CanAcquire(data_store_lock, p)
    /\ data_store_lock' = Acquire(data_store_lock, p)
    /\ pc' = [pc EXCEPT ![p] = "check"]
    /\ UNCHANGED <<experiment_data, built_tasks, rater_sessions,
                   aggregate_scores, progress_store, locals, last, nSubmits,
                   created>>

\* get_task returns the view TaskResponse gives for the order and position
\* it read: the request is over.
task_finish(p) ==
    /\ pc[p] = "respond"
    /\ pc' = [pc EXCEPT ![p] = "idle"]
    /\ locals' = [locals EXCEPT ![p] = NoLocals]
    /\ UNCHANGED <<experiment_data, built_tasks, rater_sessions,
                   aggregate_scores, progress_store, data_store_lock, last,
                   nSubmits, created>>

\* A POST /submit request arrives: l_sel = int(left_selected),
\* r_sel = int(right_selected), and it reaches `with data_store_lock:`.
arrive_submit(p, rater_id, left_weight, right_weight, left_selected, right_selected) ==
    /\ pc[p] = "idle"
    /\ nSubmits < MaxSubmits
    /\ IsIntLiteral(left_selected)
    /\ IsIntLiteral(right_selected)
    /\ nSubmits' = nSubmits + 1
    /\ pc' = [pc EXCEPT ![p] = "submit_wait"]
    /\ locals' = [locals EXCEPT ![p] =
                     [rater_id |-> rater_id,
                      left_weight |-> left_weight,
                      right_weight |-> right_weight,
                      l_sel |-> IntOf(left_selected),
                      r_sel |-> IntOf(right_selected),
                      index |-> 0, result |-> "none"]]
    /\ UNCHANGED <<experiment_data, built_tasks, rater_sessions,
                   aggregate_scores, progress_store, data_store_lock, last,
                   created>>

\* submit_rating gets the lock.
submit_acquire(p) ==
    /\ pc[p] = "submit_wait"
    /\ CanAcquire(data_store_lock, p)
    /\ data_store_lock' = Acquire(data_store_lock, p)
    /\ pc' = [pc EXCEPT ![p] = "submit_vote"]
    /\ UNCHANGED <<experiment_data, built_tasks, rater_sessions,
                   aggregate_scores, progress_store, locals, last, nSubmits,
                   created>>

\* The if/elif chain. A KeyError leaves the `with` block, which releases
\* the lock.
submit_vote(p) ==
    LET vote == ApplyVote(aggregate_scores, locals[p].left_weight,
                          locals[p].right_weight, locals[p].l_sel,
                          locals[p].r_sel)
    IN  /\ pc[p] = "submit_vote"
        /\ aggregate_scores' = vote.scores
        /\ IF vote.raised = "none"
           THEN /\ pc' = [pc EXCEPT ![p] = "submit_read"]
                /\ UNCHANGED <<locals, data_store_lock>>
           ELSE /\ pc' = [pc EXCEPT ![p] = "submit_respond"]
                /\ locals' = [locals EXCEPT ![p].result = vote.raised]
                /\ data_store_lock' = Release(data_store_lock)
        /\ UNCHANGED <<experiment_data, built_tasks, rater_sessions,
                       progress_store, last, nSubmits, created>>

\* rater_sessions[rater_id]["current_index"] += 1, its read: the value is
\* fetched; a missing rater raises KeyError, an integer session TypeError,
\* and the `with` block releases the lock.
submit_read(p) ==
    LET adv == Advance(rater_sessions, locals[p].rater_id)
    IN  /\ pc[p] = "submit_read"
        /\ IF adv.raised = "none"
           THEN /\ pc' = [pc EXCEPT ![p] = "submit_write"]
                /\ locals' = [locals EXCEPT ![p].index =
                       rater_sessions[locals[p].rater_id].current_index]
                /\ UNCHANGED data_store_lock
           ELSE /\ pc' = [pc EXCEPT ![p] = "submit_respond"]
                /\ locals' = [locals EXCEPT ![p].result = adv.raised]
                /\ data_store_lock' = Release(data_store_lock)
        /\ UNCHANGED <<experiment_data, built_tasks, rater_sessions,
                       aggregate_scores, progress_store, last, nSubmits,
                       created>>

\* rater_sessions[rater_id]["current_index"] += 1, its write, and
\* next_index = rater_sessions[rater_id]["current_index"].
submit_write(p) ==
    /\ pc[p] = "submit_write"
    /\ rater_sessions' =
          [rater_sessions EXCEPT ![locals[p].rater_id].current_index =
              locals[p].index + 1]
    /\ locals' = [locals EXCEPT ![p].index = locals[p].index + 1]
    /\ pc' = [pc EXCEPT ![p] = "submit_save"]
    /\ UNCHANGED <<experiment_data, built_tasks, aggregate_scores,
                   progress_store, data_store_lock, last, nSubmits, created>>

\* save_progress(rater_sessions, aggregate_scores) inside the handler's
\* `with` block: the lock is taken a second time by its holder, the file
\* is written, the lock is given back once.
submit_save(p) ==
    /\ pc[p] = "submit_save"
    /\ CanAcquire(data_store_lock, p)
    /\ progress_store' = save_progress(rater_sessions, aggregate_scores)
    /\ data_store_lock' = Release(Acquire(data_store_lock, p))
    /\ pc' = [pc EXCEPT ![p] = "submit_exit"]
    /\ UNCHANGED <<experiment_data, built_tasks, rater_sessions,
                   aggregate_scores, locals, last, nSubmits, created>>

\* The handler's `with` block is left.
submit_exit(p) ==
    /\ pc[p] = "submit_exit"
    /\ data_store_lock' = Release(data_store_lock)
    /\ locals' = [locals EXCEPT ![p].result =
                     SubmitResponse(locals[p].index)]
    /\ pc' = [pc EXCEPT ![p] = "submit_respond"]
    /\ UNCHANGED <<experiment_data, built_tasks, rater_sessions,
                   aggregate_scores, progress_store, last, nSubmits, created>>

\* submit_rating returns the response locals[p].result names, or the
\* exception leaves it: the request is over.
submit_respond(p) ==
    /\ pc[p] = "submit_respond"
    /\ pc' = [pc EXCEPT ![p] = "idle"]
    /\ locals' = [locals EXCEPT ![p] = NoLocals]
    /\ UNCHANGED <<experiment_data, built_tasks, rater_sessions,
                   aggregate_scores, progress_store, data_store_lock, last,
                   nSubmits, created>>

\* A GET /status request arrives and reaches `with data_store_lock:`.
arrive_status(p, rater_id) ==
    /\ pc[p] = "idle"
    /\ pc' = [pc EXCEPT ![p] = "status_wait"]
    /\ locals' = [locals EXCEPT ![p] = [rater_id |-> rater_id]]
    /\ UNCHANGED <<experiment_data, built_tasks, rater_sessions,
                   aggregate_scores, progress_store, data_store_lock, last,
                   nSubmits, created>>

\* get_status gets the lock.
status_acquire(p) ==
    /\ pc[p] = "status_wait"
    /\ CanAcquire(data_store_lock, p)
    /\ data_store_lock' = Acquire(data_store_lock, p)
    /\ pc' = [pc EXCEPT ![p] = "status_read"]
    /\ UNCHANGED <<experiment_data, built_tasks, rater_sessions,
                   aggregate_scores, progress_store, locals, last, nSubmits,
                   created>>

\* The two reads of get_status; the `with` block is left, with the values
\* or with the AttributeError.
status_read(p) ==
    /\ pc[p] = "status_read"
    /\ locals' = [locals EXCEPT ![p] =
                     [rater_id |-> locals[p].rater_id,
                      response |-> StatusResponse(rater_sessions,
                                                  locals[p].rater_id)]]
    /\ data_store_lock' = Release(data_store_lock)
    /\ pc' = [pc EXCEPT ![p] = "status_respond"]
    /\ UNCHANGED <<experiment_data, built_tasks, rater_sessions,
                   aggregate_scores, progress_store, last, nSubmits, created>>

\* get_status returns locals[p].response: the request is over.
status_respond(p) ==
    /\ pc[p] = "status_respond"
    /\ pc' = [pc EXCEPT ![p] = "idle"]
    /\ locals' = [locals EXCEPT ![p] = NoLocals]
    /\ UNCHANGED <<experiment_data, built_tasks, rater_sessions,
                   aggregate_scores, progress_store, data_store_lock, last,
                   nSubmits, created>>

LockNext ==
    \/ \E p \in Procs, r \in Raters : arrive_task(p, r)
    \/ \E p \in Procs : task_acquire(p)
    \/ \E p \in Procs : task_check(p)
    \/ \E p \in Procs : task_create(p)
    \/ \E p \in Procs : task_save(p)
    \/ \E p \in Procs : task_read(p)
    \/ \E p \in Procs : task_finish(p)
    \/ \E p \in Procs, r \in Raters, v \in ConcVotes :
          arrive_submit(p, r, v[1], v[2], v[3], v[4])
    \/ \E p \in Procs : submit_acquire(p)
    \/ \E p \in Procs : submit_vote(p)
    \/ \E p \in Procs : submit_read(p)
    \/ \E p \in Procs : submit_write(p)
    \/ \E p \in Procs : submit_save(p)
    \/ \E p \in Procs : submit_exit(p)
    \/ \E p \in Procs : submit_respond(p)
    \/ \E p \in Procs, r \in Raters : arrive_status(p, r)
    \/ \E p \in Procs : status_acquire(p)
    \/ \E p \in Procs : status_read(p)
    \/ \E p \in Procs : status_respond(p)

\* Requests side by side, every handler statement by statement.
SpecLock == Init /\ [][LockNext]_vars

\* The steps of a request that has arrived, without those that take the
\* lock for the handler.
Proceed(p) ==
    \/ task_check(p) \/ task_create(p) \/ task_save(p) \/ task_read(p)
    \/ task_finish(p)
    \/ submit_vote(p) \/ submit_read(p) \/ submit_write(p)
    \/ submit_save(p) \/ submit_exit(p) \/ submit_respond(p)
    \/ status_read(p) \/ status_respond(p)

\* The step with which a waiting request takes the lock.
TakeLock(p) == task_acquire(p) \/ submit_acquire(p) \/ status_acquire(p)

\* Fair scheduling: a request that can go on does go on, and a request
\* that waits for the lock gets it if the lock is free again and again.
SpecLockFair ==
    /\ Init
    /\ [][LockNext]_vars
    /\ \A p \in Procs : WF_vars(Proceed(p))
    /\ \A p \in Procs : SF_vars(TakeLock(p))

\* ------------------------------------------------------------------------
\* Module import up to the task set, for any experiment definition
\* ------------------------------------------------------------------------

\* Candidate and datapoint identifiers a definition may use.
WeightNames == <<"w1", "w2", "w3", "w4">>

InputNames == <<"dp1", "dp2", "dp3">>

\* The lists of at most n different elements of S.
DistinctSeqs(S, n) ==
    {q \in UNION {[1..m -> S] : m \in 0..n} :
        \A a, b \in DOMAIN q : a # b => q[a] # q[b]}

\* The experiment definitions read from DATA_JSON_FILE: a candidate list
\* and a datapoint list, each without repetition, in any order.
Definitions ==
    {[weights |-> ws, inputs |-> ins] :
        ws \in DistinctSeqs({WeightNames[k] : k \in 1..MaxWeights},
                            MaxWeights),
        ins \in DistinctSeqs({InputNames[k] : k \in 1..MaxInputs},
                             MaxInputs)}

\* experiment_data = json.load(f): `tasks` is not built yet, nothing of the
\* progress store is read yet.
BuildInit ==
    /\ experiment_data \in Definitions
    /\ built_tasks = [built |-> FALSE]
    /\ progress_store = NoFile
    /\ rater_sessions = EmptyDict
    /\ aggregate_scores = EmptyDict
    /\ data_store_lock = Unlocked
    /\ pc = [p \in Procs |-> "idle"]
    /\ locals = [p \in Procs |-> NoLocals]
    /\ last = [op |-> "start"]
    /\ nSubmits = 0
    /\ created = [r \in Raters |-> 0]

\* tasks = [] and the two nested loops that fill it.
build_tasks ==
    /\ ~built_tasks.built
    /\ built_tasks' =
          [built |-> TRUE,
           tasks |-> BuildTasks(experiment_data.weights,
                                experiment_data.inputs)]
    /\ UNCHANGED <<experiment_data, rater_sessions, aggregate_scores,
                   progress_store, data_store_lock, pc, locals, last,
                   nSubmits, created>>

BuildNext == build_tasks

\* The task set built from each definition.
SpecBuild == BuildInit /\ [][BuildNext]_vars

\* ------------------------------------------------------------------------
\* save_progress in its two file operations, with crashes of the process
\* ------------------------------------------------------------------------

\* PROGRESS_STORE_FILE after open(PROGRESS_STORE_FILE, "w") and before
\* json.dump has written everything and the file is closed: empty, or the
\* beginning of a JSON text.
PartialFile == [exists |-> TRUE, bytes |-> "partial"]

\* Whether load_progress gets through the file: it is absent, or json.load
\* parses it. An empty file and the beginning of a JSON object do not
\* parse: json.load raises JSONDecodeError.
Readable(file) == ~file.exists \/ "data" \in DOMAIN file

\* The process is up: its import succeeded and it has not been killed.
Running == last.op \notin {"crash", "startup_failed"}

\* No request is inside a handler. (The handlers are coroutines without an
\* await: the event loop runs one at a time.)
AllIdle == \A p \in Procs : pc[p] = "idle"

\* GET /task of a first contact up to open(PROGRESS_STORE_FILE, "w") in
\* save_progress: the session is in memory, the file is truncated.
task_save_open(p, rater_id) ==
    /\ Running
    /\ AllIdle
    /\ CanAcquire(data_store_lock, p)
    /\ \E order \in IF NeedsNewSession(rater_sessions, rater_id)
                     THEN ShuffledOrders ELSE {} :
          rater_sessions' =
              DictSet(rater_sessions, rater_id, DictSession(order, 0))
    /\ created' = [created EXCEPT ![rater_id] = @ + 1]
    /\ data_store_lock' = Acquire(Acquire(data_store_lock, p), p)
    /\ progress_store' = PartialFile
    /\ pc' = [pc EXCEPT ![p] = "dump"]
    /\ locals' = [locals EXCEPT ![p] =
                     [rater_id |-> rater_id, handler |-> "task",
                      previous |-> progress_store]]
    /\ UNCHANGED <<experiment_data, built_tasks, aggregate_scores, last,
                   nSubmits>>

\* POST /submit of a rater that has a session, with a vote the handler
\* accepts, up to open(PROGRESS_STORE_FILE, "w") in save_progress.
submit_save_open(p, rater_id, left_weight, right_weight, left_selected, right_selected) ==
    LET e == SubmitEffect(rater_sessions, aggregate_scores, progress_store,
                          rater_id, left_weight, right_weight,
                          left_selected, right_selected)
    IN  /\ Running
        /\ AllIdle
        /\ CanAcquire(data_store_lock, p)
        /\ nSubmits < MaxSubmits
        /\ rater_id \in DOMAIN rater_sessions
        /\ rater_sessions[rater_id].type = "dict"
        /\ e.result \in {"redirect", "completed"}
        /\ nSubmits' = nSubmits + 1
        /\ rater_sessions' = e.sessions
        /\ aggregate_scores' = e.scores
        /\ data_store_lock' = Acquire(Acquire(data_store_lock, p), p)
        /\ progress_store' = PartialFile
        /\ pc' = [pc EXCEPT ![p] = "dump"]
        /\ locals' = [locals EXCEPT ![p] =
                         [rater_id |-> rater_id, handler |-> "submit",
                          previous |-> progress_store,
                          result |-> e.result, branch |-> e.branch]]
        /\ UNCHANGED <<experiment_data, built_tasks, last, created>>

\* json.dump(data, f, indent=2) and the end of the two `with` blocks of
\* save_progress, then the rest of the handler: the file is complete, the
\* lock is free, the response is sent.
save_dump(p) ==
    /\ Running
    /\ pc[p] = "dump"
    /\ progress_store' = save_progress(rater_sessions, aggregate_scores)
    /\ data_store_lock' = Release(Release(data_store_lock))
    /\ pc' = [pc EXCEPT ![p] = "idle"]
    /\ locals' = [locals EXCEPT ![p] = NoLocals]
    /\ last' = IF locals[p].handler = "task"
               THEN TaskAnswer(locals[p].rater_id,
                               rater_sessions[locals[p].rater_id])
               ELSE [op |-> "submitted", rater_id |-> locals[p].rater_id,
                     result |-> locals[p].result,
                     branch |-> locals[p].branch]
    /\ UNCHANGED <<experiment_data, built_tasks, rater_sessions,
                   aggregate_scores, nSubmits, created>>

\* The process is killed: what it held in memory is gone, the file stays
\* as it is.
crash ==
    /\ Running
    /\ rater_sessions' = EmptyDict
    /\ aggregate_scores' = EmptyDict
    /\ data_store_lock' = Unlocked
    /\ pc' = [p \in Procs |-> "idle"]
    /\ locals' = [p \in Procs |-> NoLocals]
    /\ last' = [op |-> "crash"]
    /\ UNCHANGED <<experiment_data, built_tasks, progress_store, nSubmits,
                   created>>

\* The process is started after a crash: progress_data = load_progress().
\* When json.load raises, the import fails and no process is up.
startup ==
    /\ last.op = "crash"
    /\ IF Readable(progress_store)
       THEN /\ rater_sessions' = load_progress(progress_store).rater_sessions
            /\ aggregate_scores' =
                  load_progress(progress_store).aggregate_scores
            /\ last' = [op |-> "restart"]
       ELSE /\ last' = [op |-> "startup_failed",
                        error |-> "JSONDecodeError"]
            /\ UNCHANGED <<rater_sessions, aggregate_scores>>
    /\ UNCHANGED <<experiment_data, built_tasks, progress_store,
                   data_store_lock, pc, locals, nSubmits, created>>

CrashNext ==
    \/ \E p \in Procs, r \in Raters : task_save_open(p, r)
    \/ \E p \in Procs, r \in Raters, v \in ConcVotes :
          submit_save_open(p, r, v[1], v[2], v[3], v[4])
    \/ \E p \in Procs : save_dump(p)
    \/ crash
    \/ startup

\* Saving requests one after the other, the process killed at any moment
\* and started again.
SpecCrash == Init /\ [][CrashNext]_vars

\* ------------------------------------------------------------------------
\* Properties
\* ------------------------------------------------------------------------

\* The request slots whose get_task has left the lock and not yet answered.
Answering(r) == {p \in Procs : pc[p] = "respond" /\ locals[p].rater_id = r}

\* The task at position k (0-based) of an order.
TaskAt(order, k) == tasks[order[k + 1] + 1]

\* C1: first contact is race-free. However GET /task requests for one rater
\* interleave, one session at most is created for that rater; every request
\* that has read its session holds the order of that one session, and holds
\* position 0 of it as long as the rater has submitted nothing; the answer
\* last sent for the rater was taken from that same order.
C1_FirstContactRaceFree ==
    \A r \in Raters :
        /\ created[r] <= 1
        /\ \A p \in Answering(r) :
              /\ r \in DOMAIN rater_sessions
              /\ rater_sessions[r].type = "dict"
              /\ locals[p].order = rater_sessions[r].order
              /\ rater_sessions[r].current_index = 0 =>
                    /\ locals[p].current_index = 0
                    /\ TaskResponse(locals[p].order, locals[p].current_index)
                          = [view |-> "task",
                             task |-> TaskAt(rater_sessions[r].order, 0)]
        /\ (last.op = "task" /\ last.rater_id = r) =>
              /\ r \in DOMAIN rater_sessions
              /\ rater_sessions[r].type = "dict"
              /\ last.order = rater_sessions[r].order

\* C1 witness: two requests of one rater, both past the lock, after the one
\* session of that rater was created, both at position 0.
C1_Witness ==
    \E r \in Raters :
        /\ created[r] = 1
        /\ Cardinality(Answering(r)) >= 2
        /\ \A p \in Answering(r) : locals[p].current_index = 0

\* C2: GET /task calls of one rater between which the rater's position did
\* not move give the identical answer, the task at order[current_index] of
\* the rater's session, whatever other raters submit in between.
C2_RepeatedTaskIdentical ==
    \A r \in Raters :
        \A p \in Answering(r) :
            LET mine == TaskResponse(locals[p].order, locals[p].current_index)
            IN  /\ \A q \in Answering(r) :
                      locals[q].current_index = locals[p].current_index =>
                          TaskResponse(locals[q].order,
                                       locals[q].current_index) = mine
                /\ (/\ last.op = "task"
                    /\ last.rater_id = r
                    /\ last.current_index = locals[p].current_index) =>
                       last.response = mine
                /\ (/\ r \in DOMAIN rater_sessions
                    /\ rater_sessions[r].type = "dict"
                    /\ rater_sessions[r].current_index
                          = locals[p].current_index
                    /\ locals[p].current_index < NumTasks) =>
                       mine = [view |-> "task",
                               task |-> TaskAt(rater_sessions[r].order,
                                               rater_sessions[r].current_index)]

\* C2 witness: three calls of one rater at one position, one answered and
\* two about to be, with a submission served meanwhile.
C2_Witness ==
    \E r \in Raters :
        /\ Cardinality(Answering(r)) >= 2
        /\ last.op = "task"
        /\ last.rater_id = r
        /\ \A p \in Answering(r) :
              /\ locals[p].current_index = last.current_index
              /\ last.current_index < NumTasks
        /\ nSubmits >= 1

\* A step that serves one POST /submit.
SubmitStep == nSubmits' = nSubmits + 1

\* The scoring table: what a vote adds to A (left) and to B (right).
TableRow(selectedA, selectedB) ==
    CASE selectedA /\ ~selectedB  -> [A |-> 1,  B |-> -1]
      [] ~selectedA /\ selectedB  -> [A |-> -1, B |-> 1]
      [] selectedA /\ selectedB   -> [A |-> 1,  B |-> 1]
      [] ~selectedA /\ ~selectedB -> [A |-> -1, B |-> -1]

\* The scores the table prescribes after a vote on (A, B): A and B get
\* their row's amounts (both amounts, when A and B are one candidate), every
\* other candidate keeps its score.
TableScores(scores, A, B, selectedA, selectedB) ==
    [w \in DOMAIN scores |->
        scores[w]
        + (IF w = A THEN TableRow(selectedA, selectedB).A ELSE 0)
        + (IF w = B THEN TableRow(selectedA, selectedB).B ELSE 0)]

\* C3: every POST /submit on two candidates that have a score, with
\* selections "0" or "1", leaves the aggregate scores the four-way table
\* prescribes: A (left) and B (right) changed by their row, every other
\* candidate's score unchanged.
C3_VoteFollowsTable ==
    [][(/\ SubmitStep
        /\ last'.left_weight \in DOMAIN aggregate_scores
        /\ last'.right_weight \in DOMAIN aggregate_scores
        /\ last'.left_selected \in {"0", "1"}
        /\ last'.right_selected \in {"0", "1"}) =>
          aggregate_scores' =
              TableScores(aggregate_scores,
                          last'.left_weight, last'.right_weight,
                          last'.left_selected = "1",
                          last'.right_selected = "1")
      ]_vars

\* C3 witness: on a fresh store, a vote for the left candidate only has
\* been recorded on the pair (w1, w2).
C3_Witness ==
    /\ last.op = "submit"
    /\ last.left_weight = "w1"
    /\ last.right_weight = "w2"
    /\ last.branch = 1
    /\ last.result = "redirect"
    /\ nSubmits = 1
    /\ aggregate_scores = [w \in WeightSet |-> IF w = "w1" THEN 1 ELSE -1]

\* The sum of a dict's values.
RECURSIVE SumOver(_, _)
SumOver(f, S) ==
    IF S = {} THEN 0
    ELSE LET x == CHOOSE y \in S : TRUE
         IN  f[x] + SumOver(f, S \ {x})

SumScores(scores) == SumOver(scores, DOMAIN scores)

\* A POST /submit that was accepted: it got a view, not an exception.
Accepted(answer) == answer.result \in {"redirect", "completed"}

\* C4: the sum of all scores moves only with accepted votes, each moving it
\* by -2, 0 or +2, so that after N accepted votes the sum is the starting
\* sum plus the N per-vote amounts. (A restart is not a request.)
C4_SumAccounting ==
    [][last'.op # "restart" =>
         LET d == SumScores(aggregate_scores') - SumScores(aggregate_scores)
         IN  IF SubmitStep /\ Accepted(last')
             THEN d \in {-2, 0, 2}
             ELSE d = 0
      ]_vars

\* Whether an order lists every task index 0 .. len(tasks)-1 exactly once.
IsPermutationOfTasks(order) ==
    /\ Len(order) = NumTasks
    /\ \A k \in 0..(NumTasks - 1) :
          Cardinality({i \in 1..Len(order) : order[i] = k}) = 1

\* The raters whose session is a dict.
DictRaters(sessions) ==
    {r \in DOMAIN sessions : sessions[r].type = "dict"}

\* C5: in every reachable state every session's order is a permutation of
\* the task indices, and no step changes the order of a session that
\* exists.
C5_OrderIsPermutation ==
    /\ [](\A r \in DictRaters(rater_sessions) :
             IsPermutationOfTasks(rater_sessions[r].order))
    /\ [][\A r \in DictRaters(rater_sessions) :
             /\ r \in DictRaters(rater_sessions')
             /\ rater_sessions'[r].order = rater_sessions[r].order]_vars

\* C5 witness: a session created in this run, its rater one task on.
C5_Witness ==
    \E r \in DictRaters(rater_sessions) :
        /\ created[r] = 1
        /\ rater_sessions[r].current_index = 1

\* C6: once a rater's position is the number of tasks, GET /status answers
\* progress = total_tasks = that number, and GET /task answers the
\* completion view.
C6_CompletionReported ==
    \A r \in DictRaters(rater_sessions) :
        rater_sessions[r].current_index = NumTasks =>
            /\ (last.op = "status" /\ last.rater_id = r) =>
                  last.response = [result |-> "ok", progress |-> NumTasks,
                                   total_tasks |-> NumTasks]
            /\ (last.op = "task" /\ last.rater_id = r) =>
                  last.response = [view |-> "completed"]

\* C6 witness: a rater whose session was created in this run has submitted
\* once per task and asks for a task.
C6_Witness ==
    \E r \in DictRaters(rater_sessions) :
        /\ created[r] = 1
        /\ rater_sessions[r].current_index = NumTasks
        /\ nSubmits = NumTasks
        /\ last.op = "task"
        /\ last.rater_id = r

\* C7: whenever a snapshot exists, loading it gives the sessions and scores
\* that are in memory.
C7_RoundTrip ==
    progress_store.exists =>
        load_progress(progress_store)
            = [rater_sessions |-> rater_sessions,
               aggregate_scores |-> aggregate_scores]

\* C8: a POST /submit for a rater without a session fails, creates no
\* session and leaves the scores and the snapshot as they were.
C8_UnknownRaterNoEffect ==
    [][(SubmitStep /\ last'.rater_id \notin DOMAIN rater_sessions) =>
         /\ ~Accepted(last')
         /\ last'.rater_id \notin DOMAIN rater_sessions'
         /\ aggregate_scores' = aggregate_scores
         /\ progress_store' = progress_store
      ]_vars

\* C9: a POST /submit naming a candidate that has no score is rejected: no
\* score changes, no score entry appears, the rater's position stays.
C9_UnknownCandidateNoEffect ==
    [][(/\ SubmitStep
        /\ \/ last'.left_weight \notin DOMAIN aggregate_scores
           \/ last'.right_weight \notin DOMAIN aggregate_scores) =>
          /\ ~Accepted(last')
          /\ aggregate_scores' = aggregate_scores
          /\ DOMAIN aggregate_scores' = DOMAIN aggregate_scores
          /\ rater_sessions' = rater_sessions
      ]_vars

\* C10: every POST /submit that advances a rater's position has applied
\* exactly one row of the scoring table.
C10_AdvanceAppliesOneRow ==
    [][(SubmitStep /\ rater_sessions' # rater_sessions) =>
         last'.branch \in 1..4
      ]_vars

\* The tasks of a list that show datapoint d with the two candidates a, b.
TasksFor(list, d, a, b) ==
    {k \in DOMAIN list :
        /\ list[k].datapoint_id = d
        /\ {list[k].left_weight, list[k].right_weight} = {a, b}}

\* C11: the task set built from a definition with W candidates and D
\* datapoints has D * W*(W-1)/2 entries; for every datapoint and every two
\* different candidates exactly one task exists, its left candidate the one
\* that comes first in the candidate list, its two outputs those
\* candidates' outputs at the datapoint's position.
C11_TaskSetComplete ==
    built_tasks.built =>
        LET ws   == experiment_data.weights
            ins  == experiment_data.inputs
            list == built_tasks.tasks
        IN  /\ Len(list) = (Len(ins) * Len(ws) * (Len(ws) - 1)) \div 2
            /\ \A i \in 1..Len(ins) :
                  \A a, b \in 1..Len(ws) :
                      a < b =>
                          /\ Cardinality(TasksFor(list, ins[i], ws[a], ws[b]))
                                = 1
                          /\ \A k \in TasksFor(list, ins[i], ws[a], ws[b]) :
                                list[k] =
                                    [datapoint_id |-> ins[i],
                                     left_weight  |-> ws[a],
                                     right_weight |-> ws[b],
                                     left_output  |-> outputs(ws[a], i),
                                     right_output |-> outputs(ws[b], i)]

\* C11 witness: the task set of a definition with the most candidates and
\* the most datapoints, its candidates not in the order of their names.
C11_Witness ==
    /\ built_tasks.built
    /\ Len(experiment_data.weights) = MaxWeights
    /\ Len(experiment_data.inputs) = MaxInputs
    /\ experiment_data.weights[1] = "w2"
    /\ Len(built_tasks.tasks) > 1

\* C12: GET /status changes nothing: the sessions, the scores and the
\* snapshot stay as they are, so a rater without a session still has none
\* and its next GET /task is a first contact; for such a rater the answer is
\* progress 0 and total_tasks = len(tasks).
C12_StatusReadOnly ==
    [][(last' # last /\ last'.op = "status") =>
          /\ rater_sessions' = rater_sessions
          /\ aggregate_scores' = aggregate_scores
          /\ progress_store' = progress_store
          /\ NeedsNewSession(rater_sessions', last'.rater_id)
                = NeedsNewSession(rater_sessions, last'.rater_id)
          /\ last'.rater_id \notin DOMAIN rater_sessions =>
                last'.response = [result |-> "ok", progress |-> 0,
                                  total_tasks |-> NumTasks]
      ]_vars

\* C12 witness: the status of a rater without a session has been answered,
\* after another rater got a session and voted.
C12_Witness ==
    /\ last.op = "status"
    /\ last.rater_id \notin DOMAIN rater_sessions
    /\ last.response.progress = 0
    /\ rater_sessions # EmptyDict
    /\ nSubmits > 0

\* C13: right after a load (module import, at start or restart) the store
\* is: without a snapshot, no session and score zero for every weight; with
\* a snapshot, the stored scores with their stored values, zero for every
\* weight the snapshot lacks, and the stored sessions as stored. In every
\* reachable state every weight has a score.
C13_LoadBackfills ==
    /\ WeightSet \subseteq DOMAIN aggregate_scores
    /\ last.op \in {"start", "restart"} =>
          IF ~progress_store.exists
          THEN /\ rater_sessions = EmptyDict
               /\ aggregate_scores = [w \in WeightSet |-> 0]
          ELSE LET stored == progress_store.data.aggregate_scores
                   kept   == progress_store.data.rater_sessions
               IN  /\ DOMAIN aggregate_scores = (DOMAIN stored) \cup WeightSet
                   /\ \A w \in DOMAIN stored : aggregate_scores[w] = stored[w]
                   /\ \A w \in WeightSet \ DOMAIN stored :
                         aggregate_scores[w] = 0
                   /\ DOMAIN rater_sessions = DOMAIN kept
                   /\ \A r \in DOMAIN kept :
                         JsonOfSession(rater_sessions[r]) = kept[r]

\* C13 witness: a restart that loads a snapshot which lacks w2, holds a
\* candidate the definition does not list, and holds w1 with a score other
\* than zero.
C13_Witness ==
    /\ last.op = "restart"
    /\ progress_store.exists
    /\ "w2" \notin DOMAIN progress_store.data.aggregate_scores
    /\ aggregate_scores["w2"] = 0
    /\ aggregate_scores["w1"] = -1
    /\ aggregate_scores[UnknownWeight] = 1
    /\ rater_sessions # EmptyDict

\* C14: every request that changes the sessions or the scores in memory
\* leaves the snapshot equal to what it left in memory, whether it succeeds
\* or fails. (A restart is not a request.)
C14_SavedBeforeUnlock ==
    [][(/\ last'.op # "restart"
        /\ \/ rater_sessions' # rater_sessions
           \/ aggregate_scores' # aggregate_scores) =>
          progress_store' = save_progress(rater_sessions', aggregate_scores')
      ]_vars

\* The position of a rater whose session is a dict.
Position(sessions, r) == sessions[r].current_index

\* A POST /submit step that is a whole submission: it was accepted, the
\* rater's position went up by one and, when a row of the table applies,
\* both candidates got the row's amounts.
WholeSubmission ==
    /\ SubmitStep
    /\ Accepted(last')
    /\ last'.rater_id \in DictRaters(rater_sessions)
    /\ last'.rater_id \in DictRaters(rater_sessions')
    /\ Position(rater_sessions', last'.rater_id)
          = Position(rater_sessions, last'.rater_id) + 1
    /\ IF last'.branch \in 1..4
       THEN /\ last'.left_weight \in DOMAIN aggregate_scores
            /\ last'.right_weight \in DOMAIN aggregate_scores
            /\ aggregate_scores' =
                  TableScores(aggregate_scores,
                              last'.left_weight, last'.right_weight,
                              last'.left_selected = "1",
                              last'.right_selected = "1")
       ELSE aggregate_scores' = aggregate_scores

\* C17: what GET /results and GET /status return is the state in memory,
\* and a POST /submit changes that state by a whole submission or not at
\* all: no reader is given scores with one candidate of a vote updated and
\* the other not, or scores updated and the position not advanced.
C17_NoPartialUpdateVisible ==
    [][/\ (last' # last /\ last'.op = "results") =>
            last'.content = aggregate_scores
       /\ (last' # last /\ last'.op = "status"
              /\ last'.rater_id \in DictRaters(rater_sessions)) =>
            last'.response.progress
                = Position(rater_sessions, last'.rater_id)
       /\ SubmitStep =>
            \/ WholeSubmission
            \/ /\ aggregate_scores' = aggregate_scores
               /\ rater_sessions' = rater_sessions
      ]_vars

\* C18: for a rater whose position is at or beyond the number of tasks,
\* GET /task gives the completion view; it does not index the order.
C18_PastCompletionTolerated ==
    \A r \in DictRaters(rater_sessions) :
        Position(rater_sessions, r) >= NumTasks =>
            /\ TaskResponse(rater_sessions[r].order,
                            Position(rater_sessions, r))
                  = [view |-> "completed"]
            /\ (last.op = "task" /\ last.rater_id = r) =>
                  last.response = [view |-> "completed"]

\* C18 witness: a rater advanced beyond the length of its order has asked
\* for a task.
C18_Witness ==
    \E r \in DictRaters(rater_sessions) :
        /\ Position(rater_sessions, r) > Len(rater_sessions[r].order)
        /\ last.op = "task"
        /\ last.rater_id = r
        /\ last.current_index = Position(rater_sessions, r)

\* C20: every accepted vote that changes scores names the two candidates
\* of the task at the rater's current position, left as left and right as
\* right, and the rater has not completed its order.
C20_VoteOnAssignedTask ==
    [][(SubmitStep /\ Accepted(last') /\ last'.branch \in 1..4) =>
          /\ last'.rater_id \in DictRaters(rater_sessions)
          /\ Position(rater_sessions, last'.rater_id) < NumTasks
          /\ last'.left_weight =
                TaskAt(rater_sessions[last'.rater_id].order,
                       Position(rater_sessions, last'.rater_id)).left_weight
          /\ last'.right_weight =
                TaskAt(rater_sessions[last'.rater_id].order,
                       Position(rater_sessions, last'.rater_id)).right_weight
      ]_vars

\* C15: while save_progress writes, and so at any crash, the file is the
\* complete previous snapshot or the complete new one; a start after a
\* crash never fails to load.
C15_SaveAtomic ==
    /\ \A p \in Procs :
          pc[p] = "dump" =>
              progress_store \in
                  {locals[p].previous,
                   save_progress(rater_sessions, aggregate_scores)}
    /\ last.op # "startup_failed"

\* The request slots that hold the lock.
InCritical == {p \in Procs : pc[p] \in CriticalPcs}

\* C16: however requests interleave, a rater's session is never deleted
\* and its position never decreases; the position changes only in the step
\* of a POST /submit of that rater that writes current_index, and every
\* such step raises it by exactly one: no increment is lost.
C16_ExactlyOnceProgression ==
    [][/\ \A r \in DictRaters(rater_sessions) :
             /\ r \in DictRaters(rater_sessions')
             /\ Position(rater_sessions', r) >= Position(rater_sessions, r)
             /\ Position(rater_sessions', r) # Position(rater_sessions, r) =>
                   \E p \in Procs :
                       /\ pc[p] = "submit_write"
                       /\ pc'[p] = "submit_save"
                       /\ locals[p].rater_id = r
       /\ \A p \in Procs :
             (pc[p] = "submit_write" /\ pc'[p] = "submit_save") =>
                 Position(rater_sessions', locals[p].rater_id)
                     = Position(rater_sessions, locals[p].rater_id) + 1
      ]_vars

\* C16 witness: two submissions of one rater were in flight together, both
\* were accepted, and the rater, whose session was created in this run at
\* position 0, is at position 2.
C16_Witness ==
    \E r \in DictRaters(rater_sessions) :
        /\ created[r] = 1
        /\ Position(rater_sessions, r) = 2
        /\ \A p \in Procs :
              /\ pc[p] = "submit_respond"
              /\ locals[p].rater_id = r
              /\ Accepted(locals[p])

\* C19: under fair scheduling every request that has arrived finishes;
\* the lock is held by the one request inside a critical section and is
\* free when none is, also after a request failed inside it; saving inside
\* the critical section does not stop the holder.
C19_NoRequestBlocks ==
    /\ \A p \in Procs : (pc[p] # "idle") ~> (pc[p] = "idle")
    /\ [](InCritical = {} => data_store_lock = Unlocked)
    /\ [](\A p \in InCritical : data_store_lock.owner = p)

\* C19 witness: a request failed inside its critical section and is about
\* to answer, the other request waits for the lock, the lock is free.
C19_Witness ==
    \E p, q \in Procs :
        /\ pc[p] = "submit_respond"
        /\ locals[p].result = "KeyError:rater_id"
        /\ pc[q] \in {"task_wait", "submit_wait", "status_wait"}
        /\ data_store_lock = Unlocked

====
